---- MODULE Spec2Model ----
(***************************************************************************)
(* Trust-IoT allocation-and-trust engine (src/src/trustiot/core.py).       *)
(*                                                                         *)
(* Arithmetic.  The program computes in floating point; the model computes *)
(* in integers:                                                            *)
(*   - trust_score is held in units of 1/TrustScale (1.0 = TrustScale),    *)
(*     every product rounded down to that unit;                            *)
(*   - cpu_request and capacity_cpu are whole cpu units;                   *)
(*   - a host load is the exact fraction LoadNum / LoadDen, where LoadDen  *)
(*     is a common multiple of every capacity;                             *)
(*   - a work item's utility is held multiplied by 10 * LoadDen and a      *)
(*     host's utility multiplied by 2 * UtilDen * capacity^2 * TrustScale, *)
(*     both exact, so every comparison of the code is decided exactly;    *)
(*   - the recorded metrics are held in units of 1/Milli, rounded down.    *)
(***************************************************************************)
EXTENDS Integers, Sequences, FiniteSets, TLC

\* ---------------------------------------------------------------- bounds
MaxDevices == 2
MaxServers == 2
MaxIterations == 2
MaxRuns == 2
MaxDecay == 12
MaxRejections == 20

\* ------------------------------------------------------- program constants
TrustScale == 10000
Milli == 1000
\* best_server_id = None; an assignment to None
NoneId == 0
\* np.std of an empty list
NaN == -1

Algorithms == {"game_theory", "greedy", "random"}
Requests == {1, 2}
Capacities == {2, 4}
Latencies == {10, 11}
Energies == {1}
Deadlines == {20}

VARIABLES
    devices,                 \* Simulation.devices: the work items, in list order
    trust_score,             \* device id -> trust_score
    consecutive_rejections,  \* device id -> consecutive_rejections
    servers,                 \* Simulation.servers: the hosts, in list order
    hosted,                  \* server id -> hosted_modules / hosted_tasks
    cost_matrix,             \* Simulation.cost_matrix
    pc,                      \* position of the caller / of Simulation.run
    algorithm,               \* run's argument
    iterations,              \* run's argument
    i,                       \* run's loop variable
    history,                 \* run's history
    assignments,             \* run's assignments
    proposals,               \* run's proposals (game_theory)
    final_assignments,       \* run's final_assignments (game_theory)
    scan,                    \* the acceptance loops' locals (game_theory)
    runs,                    \* calls counted against the model's bounds
    call                     \* the last operation called from outside, with its argument

vars == <<devices, trust_score, consecutive_rejections, servers, hosted, cost_matrix,
          pc, algorithm, iterations, i, history, assignments, proposals,
          final_assignments, scan, runs, call>>

population == <<devices, servers, cost_matrix>>
runLocals == <<algorithm, iterations, i, history, assignments, proposals,
               final_assignments, scan>>

\* ---------------------------------------------------------------- helpers
RECURSIVE SumSeq(_)
SumSeq(s) == IF s = <<>> THEN 0 ELSE Head(s) + SumSeq(Tail(s))

RECURSIVE Gcd(_, _)
Gcd(a, b) == IF b = 0 THEN a ELSE Gcd(b, a % b)

Lcm(a, b) == (a * b) \div Gcd(a, b)

RECURSIVE LcmOf(_)
LcmOf(S) == IF S = {} THEN 1 ELSE LET x == CHOOSE y \in S : TRUE IN Lcm(x, LcmOf(S \ {x}))

Max(a, b) == IF a >= b THEN a ELSE b
Min(a, b) == IF a <= b THEN a ELSE b

\* the integer square root: the r with r * r <= v < (r + 1) * (r + 1), by bisection
RECURSIVE SqrtBetween(_, _, _)
SqrtBetween(v, lo, hi) ==
    IF hi - lo <= 1 THEN lo
    ELSE LET mid == (lo + hi) \div 2
         IN IF mid * mid <= v THEN SqrtBetween(v, mid, hi) ELSE SqrtBetween(v, lo, mid)

ISqrt(v) == SqrtBetween(v, 0, 46340)

Range(s) == {s[k] : k \in DOMAIN s}

\* A dict is held as the sequence of its <<key, value>> items, in insertion order.
EmptyMap == <<>>
Keys(m) == {m[k][1] : k \in DOMAIN m}
Lookup(m, key) == m[CHOOSE k \in DOMAIN m : m[k][1] = key][2]

\* the subsequence of s (a sequence of device ids) of the elements in set S
RECURSIVE Filter(_, _)
Filter(s, S) ==
    IF s = <<>> THEN <<>>
    ELSE IF Head(s) \in S THEN <<Head(s)>> \o Filter(Tail(s), S) ELSE Filter(Tail(s), S)

\* common denominators of the exact fractions
LoadDen == LcmOf(Capacities)
UtilDen == LcmOf(1..MaxDevices)

DeviceIds == 1..Len(devices)
ServerIds == 1..Len(servers)

\* ------------------------------------------------------------ entity model
\* IoTEdgeModule.__init__ / SensorTask.__init__: trust_score = 0.1 if is_malicious else 1.0
InitialTrust(is_malicious) == IF is_malicious THEN TrustScale \div 10 ELSE TrustScale

\* IoTEdgeModule.calculate_utility / SensorTask.calculate_utility, times 10 * LoadDen;
\* latNum is the latency times LoadDen
DeviceUtility(latNum, energy) == -(8 * latNum + 2 * energy * LoadDen)

\* update_trust_score with the honest branch's factor 1.05 written as 0.95
update_trust_score_shrinking(is_malicious, trust, rejections, is_assigned) ==
    IF is_assigned
    THEN IF is_malicious
         THEN LET r == rejections + 1
                  penalty_pct == 90 - 5 * r
              IN <<IF TrustScale \div 10 >= (trust * penalty_pct) \div 100
                   THEN TrustScale \div 10 ELSE (trust * penalty_pct) \div 100, r>>
         ELSE <<IF TrustScale <= (trust * 95) \div 100
                THEN TrustScale ELSE (trust * 95) \div 100, 0>>
    ELSE <<(trust * 995) \div 1000, rejections>>

\* update_trust_score(is_assigned): the new <<trust_score, consecutive_rejections>>
update_trust_score(is_malicious, trust, rejections, is_assigned) ==
    IF is_assigned
    THEN IF is_malicious
         THEN LET r == rejections + 1
                  penalty_pct == 90 - 5 * r
              IN <<Max(TrustScale \div 10, (trust * penalty_pct) \div 100), r>>
         ELSE <<Min(TrustScale, (trust * 105) \div 100), 0>>
    ELSE <<(trust * 995) \div 1000, rejections>>

\* sum of cpu_request over a list of device ids
RequestSum(ds) == SumSeq([k \in DOMAIN ds |-> devices[ds[k]].cpu_request])

\* get_current_cpu_load, times LoadDen
LoadNum(s) ==
    IF hosted[s] = <<>> THEN 0
    ELSE RequestSum(hosted[s]) * (LoadDen \div servers[s].capacity_cpu)

\* the host utility with the total trust of the set in place of its average
calculate_utility_totalTrust(s, ds) ==
    IF ds = <<>> THEN 0
    ELSE LET cap == servers[s].capacity_cpu
             req == RequestSum(ds)
             trustSum == SumSeq([k \in DOMAIN ds |-> trust_score[ds[k]]])
         IN trustSum * UtilDen * 2 * cap * cap
            - 3 * req * req * UtilDen * TrustScale

\* AzureIoTEdgeDevice.calculate_utility / Mote.calculate_utility,
\* times 2 * UtilDen * capacity_cpu^2 * TrustScale
calculate_utility(s, ds) ==
    IF ds = <<>> THEN 0
    ELSE LET cap == servers[s].capacity_cpu
             req == RequestSum(ds)
             trustSum == SumSeq([k \in DOMAIN ds |-> trust_score[ds[k]]])
         IN trustSum * (UtilDen \div Len(ds)) * 2 * cap * cap
            - 3 * req * req * UtilDen * TrustScale

\* ---------------------------------------------------------------- cost model
\* _get_dynamic_cost: latency times LoadDen, energy, processing_time times LoadDen
get_dynamic_cost(d, s) ==
    [latency |-> cost_matrix[d][s].latency * (LoadDen + LoadNum(s)),
     energy |-> cost_matrix[d][s].energy,
     processing_time |-> devices[d].cpu_request * (LoadDen \div servers[s].capacity_cpu)]

\* the scan "if utility > max_utility: max_utility, best_server_id = utility, server.id"
\* over the servers in list order, starting from (None, -inf)
RECURSIVE BestServerFrom(_, _, _, _)
BestServerFrom(util, s, best, maxu) ==
    IF s > Len(servers) THEN best
    ELSE IF best = NoneId \/ util[s] > maxu
         THEN BestServerFrom(util, s + 1, s, util[s])
         ELSE BestServerFrom(util, s + 1, best, maxu)

BestServer(util) == BestServerFrom(util, 1, NoneId, 0)

\* game_theory's choice for a device: dynamic cost, times trust_score
ProposalTarget(d) ==
    BestServer([s \in ServerIds |->
        LET c == get_dynamic_cost(d, s)
        IN DeviceUtility(c.latency, c.energy) * trust_score[d]])

\* greedy's choice for a device: the cost_matrix entry as it is
GreedyTarget(d) ==
    BestServer([s \in ServerIds |->
        DeviceUtility(cost_matrix[d][s].latency * LoadDen, cost_matrix[d][s].energy)])

\* ------------------------------------------------------------------ history
EmptyHistory ==
    [avg_device_utility |-> <<>>, server_load_std_dev |-> <<>>,
     avg_trust_honest |-> <<>>, avg_trust_malicious |-> <<>>,
     completion_ratio |-> <<>>, deadline_adherence |-> <<>>,
     malicious_accepted |-> <<>>, total_energy |-> <<>>]

MetricKeys == DOMAIN EmptyHistory

\* "for key in history: if history[key]: history[key].append(history[key][0])"
ReplicatedHistory(h) ==
    [key \in MetricKeys |-> IF h[key] # <<>> THEN Append(h[key], h[key][1]) ELSE h[key]]

NoScan == [server |-> 0, requesting |-> <<>>, k |-> 0, accepted |-> <<>>, best_utility |-> 0]

\* -------------------------------------------------------------- populations
DeviceRecords == [is_malicious : BOOLEAN, cpu_request : Requests, deadline : Deadlines]
ServerRecords == [capacity_cpu : Capacities]
CostEntries == [latency : Latencies, energy : Energies]

\* the state Simulation(devices, servers) is constructed in, for nd devices and ns servers
InitPopulation(nds, nss) ==
    \E nd \in nds, ns \in nss :
        /\ devices \in [1..nd -> DeviceRecords]
        /\ servers \in [1..ns -> ServerRecords]
        /\ cost_matrix \in [1..nd -> [1..ns -> CostEntries]]
        /\ trust_score = [d \in 1..nd |-> InitialTrust(devices[d].is_malicious)]
        /\ consecutive_rejections = [d \in 1..nd |-> 0]
        /\ hosted = [s \in 1..ns |-> <<>>]

InitLocals ==
    /\ pc = "idle"
    /\ algorithm = "none"
    /\ iterations = 0
    /\ i = 0
    /\ history = EmptyHistory
    /\ assignments = EmptyMap
    /\ proposals = <<>>
    /\ final_assignments = EmptyMap
    /\ scan = NoScan
    /\ runs = 0
    /\ call = [op |-> "none"]

Init == InitPopulation(0..MaxDevices, 0..MaxServers) /\ InitLocals

\* ---------------------------------------------------------- Simulation.run
\* run(algorithm, iterations): history = {...}
RunStart ==
    /\ pc \in {"idle", "raised"}
    /\ runs < MaxRuns
    /\ \E a \in Algorithms, n \in 1..MaxIterations :
        /\ algorithm' = a
        /\ iterations' = n
        /\ call' = [op |-> "run", algorithm |-> a, iterations |-> n]
    /\ runs' = runs + 1
    /\ i' = 0
    /\ history' = EmptyHistory
    /\ assignments' = EmptyMap
    /\ proposals' = <<>>
    /\ final_assignments' = EmptyMap
    /\ scan' = NoScan
    /\ pc' = "loop"
    /\ UNCHANGED <<population, trust_score, consecutive_rejections, hosted>>

\* "return history", once range(iterations) is exhausted
RunReturn ==
    /\ pc = "loop"
    /\ i = iterations
    /\ pc' = "idle"
    /\ UNCHANGED <<population, trust_score, consecutive_rejections, hosted, runLocals,
                   runs, call>>

\* ---- game_theory, lines 206-215: every device proposes to its best server
Propose ==
    /\ pc = "loop"
    /\ i < iterations
    /\ algorithm = "game_theory"
    /\ assignments' = EmptyMap
    /\ proposals' = [s \in ServerIds |->
                        Filter([d \in DeviceIds |-> d], {d \in DeviceIds : ProposalTarget(d) = s})]
    /\ final_assignments' = EmptyMap
    /\ scan' = [NoScan EXCEPT !.server = 1]
    /\ pc' = "host"
    /\ UNCHANGED <<population, trust_score, consecutive_rejections, hosted, algorithm,
                   iterations, i, history, runs, call>>

\* requesting_devices.sort(key=lambda d: d.trust_score, reverse=True): a stable sort
RECURSIVE InsertByTrust(_, _)
InsertByTrust(sorted, d) ==
    IF sorted = <<>> THEN <<d>>
    ELSE IF trust_score[Head(sorted)] >= trust_score[d]
         THEN <<Head(sorted)>> \o InsertByTrust(Tail(sorted), d)
         ELSE <<d>> \o sorted

RECURSIVE SortByTrust(_)
SortByTrust(ds) ==
    IF ds = <<>> THEN <<>>
    ELSE InsertByTrust(SortByTrust(SubSeq(ds, 1, Len(ds) - 1)), ds[Len(ds)])

\* lines 218-224: the head of "for server in self.servers"
HostBegin ==
    /\ pc = "host"
    /\ scan.server <= Len(servers)
    /\ IF proposals[scan.server] = <<>>
       THEN /\ scan' = [scan EXCEPT !.server = @ + 1]
            /\ pc' = "host"
       ELSE /\ scan' = [scan EXCEPT !.requesting = SortByTrust(proposals[scan.server]),
                                    !.k = 1,
                                    !.accepted = <<>>,
                                    !.best_utility = calculate_utility(scan.server, <<>>)]
            /\ pc' = "scan"
    /\ UNCHANGED <<population, trust_score, consecutive_rejections, hosted, algorithm,
                   iterations, i, history, assignments, proposals, final_assignments,
                   runs, call>>

\* the acceptance test as a capacity cutoff: the set with the candidate fits the host
Accepts_withinCapacity(s, accepted, d, best_utility) ==
    RequestSum(Append(accepted, d)) <= servers[s].capacity_cpu

\* the acceptance test against the baseline of the empty set, not the running best
Accepts_againstBaseline(s, accepted, d, best_utility) ==
    calculate_utility(s, Append(accepted, d)) > calculate_utility(s, <<>>)

\* line 228: "if server.calculate_utility(potential_new_set) > best_utility"
Accepts(s, accepted, d, best_utility) ==
    calculate_utility(s, Append(accepted, d)) > best_utility

\* lines 226-230: one pass of "for device in requesting_devices"
AcceptStep ==
    /\ pc = "scan"
    /\ scan.k <= Len(scan.requesting)
    /\ LET d == scan.requesting[scan.k]
           potential_new_set == Append(scan.accepted, d)
       IN IF Accepts(scan.server, scan.accepted, d, scan.best_utility)
          THEN scan' = [scan EXCEPT !.k = @ + 1,
                                    !.accepted = potential_new_set,
                                    !.best_utility = calculate_utility(scan.server, potential_new_set)]
          ELSE scan' = [scan EXCEPT !.k = @ + 1]
    /\ pc' = "scan"
    /\ UNCHANGED <<population, trust_score, consecutive_rejections, hosted, algorithm,
                   iterations, i, history, assignments, proposals, final_assignments,
                   runs, call>>

\* final_assignments[device.id] = server.id, for each device of a list, in order
RECURSIVE SetAll(_, _, _)
SetAll(m, ds, s) ==
    IF ds = <<>> THEN m
    ELSE LET d == Head(ds)
             m2 == IF d \in Keys(m)
                   THEN [k \in DOMAIN m |-> IF m[k][1] = d THEN <<d, s>> ELSE m[k]]
                   ELSE Append(m, <<d, s>>)
         IN SetAll(m2, Tail(ds), s)

\* lines 231-232: the server's accepted devices enter final_assignments
HostCommit ==
    /\ pc = "scan"
    /\ scan.k > Len(scan.requesting)
    /\ final_assignments' = SetAll(final_assignments, scan.accepted, scan.server)
    /\ scan' = [scan EXCEPT !.server = @ + 1]
    /\ pc' = "host"
    /\ UNCHANGED <<population, trust_score, consecutive_rejections, hosted, algorithm,
                   iterations, i, history, assignments, proposals, runs, call>>

\* line 233: assignments = final_assignments
HostsDone ==
    /\ pc = "host"
    /\ scan.server > Len(servers)
    /\ assignments' = final_assignments
    /\ pc' = "trust"
    /\ UNCHANGED <<population, trust_score, consecutive_rejections, hosted, algorithm,
                   iterations, i, history, proposals, final_assignments, scan, runs, call>>

\* ---- greedy and random, lines 237-247
GreedyAssignments == [d \in DeviceIds |-> <<d, GreedyTarget(d)>>]

\* random.choice(self.servers).id for each device: any server each
RandomAssignmentsSet == {[d \in DeviceIds |-> <<d, f[d]>>] : f \in [DeviceIds -> ServerIds]}

\* random.choice of an empty list raises IndexError
RandomRaises == algorithm = "random" /\ servers = <<>> /\ devices # <<>>

\* iteration 0 of greedy or random: the assignment, then on to the trust update
DecideFirst ==
    /\ pc = "loop"
    /\ i < iterations
    /\ algorithm \in {"greedy", "random"}
    /\ i = 0
    /\ ~RandomRaises
    /\ \E asg \in IF algorithm = "greedy" THEN {GreedyAssignments} ELSE RandomAssignmentsSet :
          assignments' = asg
    /\ pc' = "trust"
    /\ UNCHANGED <<population, trust_score, consecutive_rejections, hosted, algorithm,
                   iterations, i, history, proposals, final_assignments, scan, runs, call>>

\* an iteration i > 0 of greedy or random without the "continue" of line 252:
\* it goes on to the trust update
Replicate_fallsThrough ==
    /\ pc = "loop"
    /\ i < iterations
    /\ algorithm \in {"greedy", "random"}
    /\ i > 0
    /\ ~RandomRaises
    /\ \E asg \in IF algorithm = "greedy" THEN {GreedyAssignments} ELSE RandomAssignmentsSet :
          assignments' = asg
    /\ history' = ReplicatedHistory(history)
    /\ pc' = "trust"
    /\ UNCHANGED <<population, trust_score, consecutive_rejections, hosted, algorithm,
                   iterations, i, proposals, final_assignments, scan, runs, call>>

\* an iteration i > 0 of greedy or random, lines 237-252: the assignment, then
\* history replicated and "continue"
Replicate ==
    /\ pc = "loop"
    /\ i < iterations
    /\ algorithm \in {"greedy", "random"}
    /\ i > 0
    /\ ~RandomRaises
    /\ \E asg \in IF algorithm = "greedy" THEN {GreedyAssignments} ELSE RandomAssignmentsSet :
          assignments' = asg
    /\ history' = ReplicatedHistory(history)
    /\ i' = i + 1
    /\ pc' = "loop"
    /\ UNCHANGED <<population, trust_score, consecutive_rejections, hosted, algorithm,
                   iterations, proposals, final_assignments, scan, runs, call>>

\* line 247 with no server: the exception leaves run
RandomRaise ==
    /\ pc = "loop"
    /\ i < iterations
    /\ RandomRaises
    /\ assignments' = EmptyMap
    /\ pc' = "raised"
    /\ UNCHANGED <<population, trust_score, consecutive_rejections, hosted, algorithm,
                   iterations, i, history, proposals, final_assignments, scan, runs, call>>

\* ---- lines 254-257: the trust update
UpdatedTrust(asg) ==
    [d \in DeviceIds |->
        update_trust_score(devices[d].is_malicious, trust_score[d],
                           consecutive_rejections[d], d \in Keys(asg))]

UpdateTrust ==
    /\ pc = "trust"
    /\ trust_score' = [d \in DeviceIds |-> UpdatedTrust(assignments)[d][1]]
    /\ consecutive_rejections' = [d \in DeviceIds |-> UpdatedTrust(assignments)[d][2]]
    /\ pc' = "record"
    /\ UNCHANGED <<population, hosted, runLocals, runs, call>>

\* ---- _assign_devices_to_servers: every hosted list emptied, then each item of
\* the assignment appended to its server's list when "srv_id is not None" and
\* both "server and device" were found
RECURSIVE HostedOf(_, _)
HostedOf(asg, s) ==
    IF asg = <<>> THEN <<>>
    ELSE LET dev_id == Head(asg)[1]
             srv_id == Head(asg)[2]
         IN IF srv_id # NoneId /\ srv_id = s /\ srv_id \in ServerIds /\ dev_id \in DeviceIds
            THEN <<dev_id>> \o HostedOf(Tail(asg), s)
            ELSE HostedOf(Tail(asg), s)

assign_devices_to_servers(asg) == [s \in ServerIds |-> HostedOf(asg, s)]

\* ---- lines 259-291: the metrics of one iteration
\* the items of the assignment that the loop of line 262 does not skip
Placed(asg) == SelectSeq(asg, LAMBDA item : item[2] # NoneId)

\* "if (latency + proc_time) <= device.deadline"
DeadlineMet(item) ==
    LET c == get_dynamic_cost(item[1], item[2])
    IN c.latency + c.processing_time <= devices[item[1]].deadline * LoadDen

\* get_current_cpu_load of a server hosting the list ds, in 1/Milli
LoadMilli(s, ds) ==
    IF ds = <<>> THEN 0
    ELSE (RequestSum(ds) * Milli) \div servers[s].capacity_cpu

\* np.std(server_loads), in 1/Milli; nan for no server
StdDev(loads) ==
    IF loads = <<>> THEN NaN
    ELSE LET n == Len(loads)
             s1 == SumSeq(loads)
             s2 == SumSeq([k \in DOMAIN loads |-> loads[k] * loads[k]])
         IN ISqrt(n * s2 - s1 * s1) \div n

\* np.mean of the trust scores of the devices in set S, or the default for none
MeanTrust(trust, S, default) ==
    IF S = {} THEN default
    ELSE LET ds == Filter([d \in DeviceIds |-> d], S)
         IN SumSeq([k \in DOMAIN ds |-> trust[ds[k]]]) \div Len(ds)

\* the eight values one iteration appends, from the assignment, the updated trust
\* scores, the hosted lists before the assignment is applied (the dynamic cost)
\* and after it (the server loads)
Metrics(asg, newHosted) ==
    LET placed == Placed(asg)
        assigned_count == Len(placed)
        total_utility == SumSeq([k \in DOMAIN placed |->
                            LET c == get_dynamic_cost(placed[k][1], placed[k][2])
                            IN DeviceUtility(c.latency, c.energy)])
        total_energy == SumSeq([k \in DOMAIN placed |->
                            get_dynamic_cost(placed[k][1], placed[k][2]).energy])
        deadlines_met == Len(SelectSeq(placed, DeadlineMet))
        malicious_accepted == Len(SelectSeq(placed, LAMBDA item : devices[item[1]].is_malicious))
        honest == {d \in DeviceIds : ~devices[d].is_malicious}
        malicious == {d \in DeviceIds : devices[d].is_malicious}
        num_malicious_total == Cardinality(malicious)
        nd == Len(devices)
    IN [avg_device_utility |->
            IF nd > 0 THEN (total_utility * Milli) \div (10 * LoadDen * nd) ELSE 0,
        server_load_std_dev |-> StdDev([s \in ServerIds |-> LoadMilli(s, newHosted[s])]),
        avg_trust_honest |-> MeanTrust(trust_score, honest, TrustScale),
        avg_trust_malicious |-> MeanTrust(trust_score, malicious, TrustScale \div 10),
        completion_ratio |-> IF nd > 0 THEN (assigned_count * Milli) \div nd ELSE 0,
        deadline_adherence |->
            IF assigned_count > 0 THEN (deadlines_met * Milli) \div assigned_count ELSE 0,
        malicious_accepted |->
            IF num_malicious_total > 0
            THEN (malicious_accepted * Milli) \div num_malicious_total ELSE 0,
        total_energy |-> total_energy]

\* lines 259-291: the metrics are appended and the assignment is applied; the
\* iteration ends
Record ==
    /\ pc = "record"
    /\ LET newHosted == assign_devices_to_servers(assignments)
           m == Metrics(assignments, newHosted)
       IN /\ hosted' = newHosted
          /\ history' = [key \in MetricKeys |-> Append(history[key], m[key])]
    /\ i' = i + 1
    /\ pc' = "loop"
    /\ UNCHANGED <<population, trust_score, consecutive_rejections, algorithm, iterations,
                   assignments, proposals, final_assignments, scan, runs, call>>

Next ==
    \/ RunStart
    \/ Propose
    \/ HostBegin
    \/ AcceptStep
    \/ HostCommit
    \/ HostsDone
    \/ DecideFirst
    \/ Replicate
    \/ RandomRaise
    \/ UpdateTrust
    \/ Record
    \/ RunReturn

Spec == Init /\ [][Next]_vars

\* ------------------------------------------------- one trial of run_simulation
\* all_runs_history's keys, in insertion order
TrialOrder == <<"game_theory", "greedy", "random">>

\* the locals of a run that starts
StartLocals(a, n) ==
    /\ algorithm' = a
    /\ iterations' = n
    /\ call' = [op |-> "run", algorithm |-> a, iterations |-> n]
    /\ runs' = runs + 1
    /\ i' = 0
    /\ history' = EmptyHistory
    /\ assignments' = EmptyMap
    /\ proposals' = <<>>
    /\ final_assignments' = EmptyMap
    /\ scan' = NoScan
    /\ pc' = "loop"

\* sim.run(algo) that starts every run from the creation-time entity state
TrialRunStart_resets ==
    /\ pc = "idle"
    /\ runs < Len(TrialOrder)
    /\ \E n \in IF runs = 0 THEN 1..MaxIterations ELSE {iterations} :
          StartLocals(TrialOrder[runs + 1], n)
    /\ trust_score' = [d \in DeviceIds |-> InitialTrust(devices[d].is_malicious)]
    /\ consecutive_rejections' = [d \in DeviceIds |-> 0]
    /\ hosted' = [s \in ServerIds |-> <<>>]
    /\ UNCHANGED population

\* "for algo in all_runs_history.keys(): history = sim.run(algo)": the next
\* algorithm's run starts on the same Simulation; every run of the trial gets the
\* same iteration count (run's default, here any count up to MaxIterations)
TrialRunStart ==
    /\ pc = "idle"
    /\ runs < Len(TrialOrder)
    /\ \E n \in IF runs = 0 THEN 1..MaxIterations ELSE {iterations} :
          StartLocals(TrialOrder[runs + 1], n)
    /\ UNCHANGED <<population, trust_score, consecutive_rejections, hosted>>

NextTrial ==
    \/ TrialRunStart
    \/ Propose
    \/ HostBegin
    \/ AcceptStep
    \/ HostCommit
    \/ HostsDone
    \/ DecideFirst
    \/ Replicate
    \/ RandomRaise
    \/ UpdateTrust
    \/ Record
    \/ RunReturn

SpecTrial == Init /\ [][NextTrial]_vars

\* ------------------------------------------- _assign_devices_to_servers alone
\* the dicts {dev_id: srv_id} over the ids of the population, one id beyond each,
\* and None, their items in ascending key order
RECURSIVE ItemsOf(_, _)
ItemsOf(f, keys) ==
    IF keys = {} THEN <<>>
    ELSE LET k == CHOOSE x \in keys : \A y \in keys : x <= y
         IN <<<<k, f[k]>>>> \o ItemsOf(f, keys \ {k})

AssignmentInputs ==
    UNION {{ItemsOf(f, K) : f \in [K -> 0..(Len(servers) + 1)]} :
           K \in SUBSET (1..(Len(devices) + 1))}

\* an item of the assignment that names a server or a device the population lacks
UnknownIds(asg) ==
    \E k \in DOMAIN asg :
        asg[k][2] # NoneId /\ (asg[k][1] \notin DeviceIds \/ asg[k][2] \notin ServerIds)

\* a call of _assign_devices_to_servers(assignments): it returns normally whatever
\* the ids
AssignCall ==
    /\ pc = "idle"
    /\ \E asg \in AssignmentInputs :
        /\ hosted' = assign_devices_to_servers(asg)
        /\ call' = [op |-> "assign_devices_to_servers", assignments |-> asg]
    /\ pc' = "idle"
    /\ UNCHANGED <<population, trust_score, consecutive_rejections, runLocals, runs>>

\* populations of at most one device and one server: an id beyond them is unknown
InitAssign == InitPopulation(0..1, 0..1) /\ InitLocals

NextAssign == AssignCall

SpecAssign == InitAssign /\ [][NextAssign]_vars

\* --------------------------------------------------- update_trust_score alone
\* a call of device.update_trust_score(is_assigned); the model allows MaxDecay
\* calls with is_assigned=False and lets consecutive_rejections count to MaxRejections
TrustCall(d, is_assigned) ==
    /\ pc = "idle"
    /\ is_assigned \/ runs < MaxDecay
    /\ (is_assigned /\ devices[d].is_malicious) => consecutive_rejections[d] < MaxRejections
    /\ LET new == update_trust_score(devices[d].is_malicious, trust_score[d],
                                     consecutive_rejections[d], is_assigned)
       IN /\ trust_score' = [trust_score EXCEPT ![d] = new[1]]
          /\ consecutive_rejections' = [consecutive_rejections EXCEPT ![d] = new[2]]
    /\ runs' = IF is_assigned THEN runs ELSE runs + 1
    /\ call' = [op |-> "update_trust_score", device |-> d, is_assigned |-> is_assigned]
    /\ pc' = "idle"
    /\ UNCHANGED <<population, hosted, runLocals>>

AssignedCall == \E d \in DeviceIds : TrustCall(d, TRUE)
UnassignedCall == \E d \in DeviceIds : TrustCall(d, FALSE)

InitTrust == InitPopulation({1}, {0}) /\ InitLocals

NextTrust == AssignedCall \/ UnassignedCall

\* the caller keeps assigning: a run of is_assigned=True calls is never cut short
SpecTrust == InitTrust /\ [][NextTrust]_vars /\ WF_vars(AssignedCall)
\* ===================================================================== claims
Floor == TrustScale \div 10

\* the server an assignment gives a device (None for a device it leaves out)
ServerOf(asg, d) == IF d \in Keys(asg) THEN Lookup(asg, d) ELSE NoneId

\* an iteration of run has just ended
IterationEnded == pc = "loop" /\ i >= 1

\* ---- C1
\* C1: in every reachable state of any sequence of run calls, every work item's
\* trust_score is within [0.1, 1.0].
C1_TrustInRange ==
    \A d \in DeviceIds : Floor <= trust_score[d] /\ trust_score[d] <= TrustScale

\* ---- C2
\* C2: at the end of every iteration, of every algorithm, each host's hosted set
\* holds exactly the work items that the assignment computed in that iteration
\* maps to the host.
C2_HostedReflectsAssignment ==
    IterationEnded =>
        \A s \in ServerIds : Range(hosted[s]) = {d \in DeviceIds : ServerOf(assignments, d) = s}

\* ---- C3
\* C3: a malicious work item's trust_score never increases over a call of
\* update_trust_score(is_assigned=True) (the trust update of an iteration whose
\* assignment holds the item), and once at 0.1 such a call leaves it at 0.1.
C3_MaliciousAssignedNeverIncreases ==
    [][pc = "trust" =>
        \A d \in DeviceIds :
            (devices[d].is_malicious /\ d \in Keys(assignments)) =>
                /\ trust_score'[d] <= trust_score[d]
                /\ trust_score[d] = Floor => trust_score'[d] = Floor]_vars

\* ---- C4
\* C4: over update_trust_score(is_assigned=True) calls an honest work item's
\* trust_score never decreases and consecutive_rejections is 0 after each call;
\* when such calls keep coming the trust_score reaches 1.0 and stays there.
C4_HonestAssignedConverges ==
    /\ [][(call'.op = "update_trust_score" /\ call'.is_assigned
            /\ ~devices[call'.device].is_malicious) =>
                /\ trust_score'[call'.device] >= trust_score[call'.device]
                /\ consecutive_rejections'[call'.device] = 0]_vars
    /\ <>[](\A d \in DeviceIds : ~devices[d].is_malicious => trust_score[d] = TrustScale)

\* an honest item that lost trust (is_assigned=False calls) is back at 1.0 after
\* an is_assigned=True call
C4_Witness ==
    /\ call.op = "update_trust_score"
    /\ call.is_assigned
    /\ ~devices[call.device].is_malicious
    /\ runs >= 3
    /\ trust_score[call.device] = TrustScale

\* ---- C5
\* one host of capacity 2, two honest work items of demand 1 and trust 1.0, and
\* a game_theory iteration that has just computed its assignment
C5_Scenario ==
    /\ Len(servers) = 1
    /\ servers[1].capacity_cpu = 2
    /\ Len(devices) = 2
    /\ \A d \in DeviceIds :
        /\ ~devices[d].is_malicious
        /\ devices[d].cpu_request = 1
        /\ trust_score[d] = TrustScale
    /\ algorithm = "game_theory"
    /\ pc = "trust"

\* C5 (as claimed): in that scenario the game_theory iteration assigns both items.
C5_AssignsBoth == C5_Scenario => Len(Placed(assignments)) = 2

\* C5 (amended): in that scenario the game_theory iteration assigns exactly one
\* item, the first in proposal order, and leaves the other out of the assignment.
C5_AssignsFirstOnly == C5_Scenario => assignments = <<<<1, 1>>>>

C5_Witness == C5_Scenario /\ Len(assignments) = 1

\* ---- C6
\* C6: with no host, an iteration of each strategy completes without raising and
\* leaves every work item unassigned, with completion_ratio 0.
C6_NoHostNoFault ==
    servers = <<>> =>
        /\ pc # "raised"
        /\ IterationEnded =>
            /\ Placed(assignments) = <<>>
            /\ history.completion_ratio[Len(history.completion_ratio)] = 0

\* ---- C7
\* C7: _assign_devices_to_servers, given an assignment that names a work-item id
\* or a host id the population lacks, ends in an error; it never returns normally.
C7_UnknownIdIsAnError ==
    (call.op = "assign_devices_to_servers" /\ UnknownIds(call.assignments)) => pc = "raised"

\* ---- C8
\* C8: in the acceptance scan of a host, a candidate enters the accepted set only
\* when the host's utility of the set with the candidate is strictly greater
\* than the running best utility; the running best is the utility of the
\* accepted set (0 for the empty set), and it never decreases over an addition.
C8_AcceptanceNeverLowersUtility ==
    /\ [](pc = "scan" =>
            /\ scan.best_utility = calculate_utility(scan.server, scan.accepted)
            /\ scan.accepted = <<>> => scan.best_utility = 0)
    /\ [][(pc = "scan" /\ pc' = "scan") =>
            /\ calculate_utility(scan.server, scan'.accepted)
                 >= calculate_utility(scan.server, scan.accepted)
            /\ scan'.accepted # scan.accepted =>
                 /\ scan'.accepted = Append(scan.accepted, scan.requesting[scan.k])
                 /\ calculate_utility(scan.server, scan'.accepted) > scan.best_utility]_vars

\* a scan that has accepted one proposer and passed over another
C8_Witness ==
    /\ pc = "scan"
    /\ scan.k = 3
    /\ Len(scan.accepted) = 1
    /\ scan.best_utility > 0

\* ---- C9
\* C9: an iteration i > 0 of greedy or random appends to each of the eight metric
\* sequences a copy of its entry 0 and leaves every trust_score,
\* consecutive_rejections and hosted set unchanged; the returned history has
\* `iterations` entries per metric, all equal to entry 0.
C9_LaterIterationsReplicate ==
    /\ [][(pc = "loop" /\ i > 0 /\ i < iterations /\ algorithm \in {"greedy", "random"}) =>
            /\ pc' = "loop"
            /\ i' = i + 1
            /\ \A key \in MetricKeys : history'[key] = Append(history[key], history[key][1])
            /\ trust_score' = trust_score
            /\ consecutive_rejections' = consecutive_rejections
            /\ hosted' = hosted]_vars
    /\ []((pc = "idle" /\ algorithm \in {"greedy", "random"}) =>
            \A key \in MetricKeys :
                /\ Len(history[key]) = iterations
                /\ \A k \in DOMAIN history[key] : history[key][k] = history[key][1])

\* a greedy or random run of more than one iteration has returned
C9_Witness ==
    /\ pc = "idle"
    /\ algorithm \in {"greedy", "random"}
    /\ iterations >= 2
    /\ devices # <<>>
    /\ servers # <<>>
    /\ Len(history.total_energy) = iterations

\* ---- C10
\* greedy's choice had it used the load-aware dynamic cost, without the trust
\* multiplier
DynamicGreedyTarget(d) ==
    BestServer([s \in ServerIds |->
        LET c == get_dynamic_cost(d, s)
        IN DeviceUtility(c.latency, c.energy)])

\* C10: iteration 0 of greedy maps each work item to the first host that is best
\* for the item's utility computed from the dynamic cost (base latency times
\* 1 + the host's load at the start of the iteration), also when the hosts carry
\* load from an earlier run.
C10_GreedyUsesDynamicCost ==
    (algorithm = "greedy" /\ pc = "trust" /\ i = 0) =>
        \A d \in DeviceIds : ServerOf(assignments, d) = DynamicGreedyTarget(d)
\* ---- C11
\* C11: in every non-replicated iteration the trust update treats a work item as
\* assigned if and only if the iteration's assignment maps it to a host: an item
\* absent from the assignment or mapped to None has its trust_score multiplied by
\* 0.995, its consecutive_rejections kept, and takes neither assigned branch.
C11_AssignedIffMappedToHost ==
    [][pc = "trust" =>
        \A d \in DeviceIds :
            LET expected == update_trust_score(devices[d].is_malicious, trust_score[d],
                                               consecutive_rejections[d],
                                               ServerOf(assignments, d) # NoneId)
            IN /\ trust_score'[d] = expected[1]
               /\ consecutive_rejections'[d] = expected[2]]_vars
\* ---- C12
\* the entity state as the scenario created it
CreationState ==
    /\ trust_score = [d \in DeviceIds |-> InitialTrust(devices[d].is_malicious)]
    /\ consecutive_rejections = [d \in DeviceIds |-> 0]
    /\ hosted = [s \in ServerIds |-> <<>>]

\* C12: in a trial the algorithms run in the order game_theory, greedy, random on
\* the same entities, and nothing but an iteration's trust update and its
\* application of the assignment changes trust_score, consecutive_rejections or
\* the hosted sets: a run's start resets nothing, so the first iteration of greedy
\* and of random sees what the previous algorithm left, and only game_theory
\* starts from the creation-time values.
C12_NoResetBetweenAlgorithms ==
    /\ [](call.op = "run" =>
            /\ runs \in 1..Len(TrialOrder)
            /\ algorithm = TrialOrder[runs]
            /\ (algorithm = "game_theory" /\ pc = "loop" /\ i = 0) => CreationState)
    /\ [][pc \notin {"trust", "record"} =>
            /\ trust_score' = trust_score
            /\ consecutive_rejections' = consecutive_rejections
            /\ hosted' = hosted]_vars
    /\ [][(pc = "idle" /\ pc' = "loop") =>
            /\ runs' = runs + 1
            /\ algorithm' = TrialOrder[runs + 1]]_vars

\* greedy's first iteration is about to start on trust scores and hosted lists
\* that game_theory left, not the creation-time ones
C12_Witness ==
    /\ algorithm = "greedy"
    /\ runs = 2
    /\ pc = "loop"
    /\ i = 0
    /\ \E d \in DeviceIds : trust_score[d] # InitialTrust(devices[d].is_malicious)
    /\ \E s \in ServerIds : hosted[s] # <<>>

\* ---- C13
PositiveDemandAndTrust ==
    \A d \in DeviceIds : devices[d].cpu_request > 0 /\ trust_score[d] > 0

\* C13: when every work item has positive demand and positive trust, in every
\* game_theory iteration each host accepts at most one proposer, so the number
\* of assigned items never exceeds the number of hosts, and after the iteration
\* each host's hosted list has at most one item and no item is on two hosts.
C13_AtMostOneProposerPerHost ==
    (algorithm = "game_theory" /\ PositiveDemandAndTrust) =>
        /\ pc = "scan" => Len(scan.accepted) <= 1
        /\ pc \in {"host", "scan"} =>
              /\ Len(final_assignments) <= scan.server
              /\ \A s \in ServerIds :
                    Cardinality({d \in DeviceIds : ServerOf(final_assignments, d) = s}) <= 1
        /\ pc \in {"trust", "record"} =>
              /\ Len(Placed(assignments)) <= Len(servers)
              /\ \A s \in ServerIds :
                    Cardinality({d \in DeviceIds : ServerOf(assignments, d) = s}) <= 1
        /\ IterationEnded =>
              /\ \A s \in ServerIds : Len(hosted[s]) <= 1
              /\ \A d \in DeviceIds :
                    Cardinality({s \in ServerIds : d \in Range(hosted[s])}) <= 1

\* a game_theory iteration in which two items proposed to one host and the host
\* took one of them
C13_Witness ==
    /\ algorithm = "game_theory"
    /\ pc = "trust"
    /\ PositiveDemandAndTrust
    /\ \E s \in ServerIds : Len(proposals[s]) = 2
    /\ Len(Placed(assignments)) = 1

====
